---- MODULE Spec2Model ----
(***************************************************************************)
(* The disk cache of yaoaic (src/cli/src/cache.rs over                     *)
(* src/cli/src/toml_file.rs): a directory of named TOML files, each meant  *)
(* to hold a Value { created, value }, read back while younger than        *)
(* max_cache_age.                                                          *)
(*                                                                         *)
(* A file's content is a sequence of TOML items.  The payload type T is a  *)
(* Vec of records (Vec<Prompt>, Vec<Message> in the callers); a record is  *)
(* abstracted to its number.  An item is a pair:                           *)
(*   <<"created", t>>   the [created] table of a Value written at time t   *)
(*   <<"value", r>>     one [[value]] table holding record r               *)
(*   <<"field", r>>     the fields of record r at the root of the document *)
(*   <<"junk", 0>>      bytes that are no TOML                             *)
(***************************************************************************)
EXTENDS Integers, Sequences, FiniteSets, TLC

\* The wall clock reads 0..MaxTime (time since UNIX_EPOCH, in ticks).
MaxTime == 1
\* max_cache_age is drawn from 0..MaxAge.
MaxAge == 1
\* A payload holds at most MaxLen records.
MaxLen == 2

VARIABLES
    dirState,   \* what the cache directory's path is on disk: "absent", "file", "dir"
    files,      \* file name -> [exists, bytes], the files under the directory
    now,        \* SystemTime::now(), as ticks since UNIX_EPOCH
    cache,      \* the Cache value of the running process: [init, max_cache_age]
    last,       \* the call that returned last, with what it returned
    inflight,   \* caller -> how far its with_cached has come, when calls overlap
    prompts     \* a run of PromptLoader: its sources and what it returned

vars == <<dirState, files, now, cache, last, inflight, prompts>>

\* File names the callers use; with_cached reads the first one (cache.rs:154).
PROMPTS_TOML == "prompts.toml"
Names == {PROMPTS_TOML, "0_messages.toml"}

Times == 0..MaxTime
Ages == 0..MaxAge

\* The payloads T: the first n records of the source, 1 <= n <= MaxLen.
Payloads == {[i \in 1..n |-> i] : n \in 1..MaxLen}

Min(a, b) == IF a < b THEN a ELSE b

Absent == [exists |-> FALSE, bytes |-> <<>>]
FileOf(b) == [exists |-> TRUE, bytes |-> b]

\* What a caller hands to store_cache: a Value<T> (cache.rs:34-47), a bare
\* Vec of records, or one bare record.
ValueOf(t, v) == [tag |-> "Value", created |-> t, value |-> v]
VecOf(v) == [tag |-> "Vec", created |-> 0, value |-> v]
RecordOf(r) == [tag |-> "Record", created |-> 0, value |-> <<r>>]

\* Value::from leaving created at the epoch.
ValueFromEpoch(clock, v) == ValueOf(0, v)

\* impl From<T> for Value<T> (cache.rs:53-59): created is the clock's reading.
ValueFrom(clock, v) == ValueOf(clock, v)

\* to_string_pretty losing every record after the first.
to_string_pretty_first_record(to_cache) ==
    CASE to_cache.tag = "Value" ->
            [ok |-> TRUE,
             bytes |-> <<<<"created", to_cache.created>>, <<"value", to_cache.value[1]>>>>]
      [] to_cache.tag = "Record" ->
            [ok |-> TRUE, bytes |-> <<<<"field", to_cache.value[1]>>>>]
      [] OTHER -> [ok |-> FALSE, bytes |-> <<>>]

(***************************************************************************)
(* toml::to_string_pretty.  A Value serializes to its [created] table      *)
(* followed by one [[value]] table per record; a bare record serializes to *)
(* its fields; a bare Vec is no TOML document (the root must be a table)   *)
(* and is refused.                                                         *)
(***************************************************************************)
to_string_pretty(to_cache) ==
    CASE to_cache.tag = "Value" ->
            [ok |-> TRUE,
             bytes |-> <<<<"created", to_cache.created>>>> \o
                       [i \in 1..Len(to_cache.value) |-> <<"value", to_cache.value[i]>>]]
      [] to_cache.tag = "Record" ->
            [ok |-> TRUE, bytes |-> <<<<"field", to_cache.value[1]>>>>]
      [] OTHER -> [ok |-> FALSE, bytes |-> <<>>]

\* The items of bytes whose key is k, in order.
ItemsOf(bytes, k) == SelectSeq(bytes, LAMBDA it : it[1] = k)

(***************************************************************************)
(* toml::from_str::<Value<T>>.  Fails on bytes that are no TOML, on a      *)
(* missing or repeated created and on a missing value; keys Value<T> does  *)
(* not know are ignored.                                                   *)
(***************************************************************************)
from_str(bytes) ==
    LET created == ItemsOf(bytes, "created")
        recs == ItemsOf(bytes, "value")
    IN  IF \/ ItemsOf(bytes, "junk") # <<>>
           \/ Len(created) # 1
           \/ Len(recs) = 0
        THEN [ok |-> FALSE, created |-> 0, value |-> <<>>]
        ELSE [ok |-> TRUE, created |-> created[1][2],
              value |-> [i \in 1..Len(recs) |-> recs[i][2]]]

\* What the file system does to one write: File::create may fail, and
\* write_all may fail after `written` items.
IoOutcomes ==
    {[kind |-> "ok", written |-> 0], [kind |-> "create_err", written |-> 0]}
    \cup {[kind |-> "write_err", written |-> k] : k \in 0..1}

IoOk == [kind |-> "ok", written |-> 0]

\* replace opening the file without truncating it: the new bytes are written
\* over the start of the old ones.
replace_in_place(fs, path, to_cache, io) ==
    LET ser == to_string_pretty(to_cache)
        old == fs[path].bytes
        over(new) == new \o SubSeq(old, Len(new) + 1, Len(old))
    IN  IF ~ser.ok THEN [kind |-> "Err", err |-> "Serialize", files |-> fs]
        ELSE IF io.kind = "create_err" THEN [kind |-> "Err", err |-> "Io", files |-> fs]
        ELSE IF io.kind = "write_err"
        THEN [kind |-> "Err", err |-> "Io",
              files |-> [fs EXCEPT ![path] =
                            FileOf(over(SubSeq(ser.bytes, 1,
                                               Min(io.written, Len(ser.bytes) - 1))))]]
        ELSE [kind |-> "Ok", err |-> "", files |-> [fs EXCEPT ![path] = FileOf(over(ser.bytes))]]

(***************************************************************************)
(* toml_file::replace (toml_file.rs:10-20): serialize, File::create        *)
(* (creates or truncates), write_all.                                      *)
(***************************************************************************)
replace(fs, path, to_cache, io) ==
    LET ser == to_string_pretty(to_cache)
    IN  IF ~ser.ok THEN [kind |-> "Err", err |-> "Serialize", files |-> fs]
        ELSE IF io.kind = "create_err" THEN [kind |-> "Err", err |-> "Io", files |-> fs]
        ELSE IF io.kind = "write_err"
        THEN [kind |-> "Err", err |-> "Io",
              files |-> [fs EXCEPT ![path] =
                            FileOf(SubSeq(ser.bytes, 1, Min(io.written, Len(ser.bytes) - 1)))]]
        ELSE [kind |-> "Ok", err |-> "", files |-> [fs EXCEPT ![path] = FileOf(ser.bytes)]]

(***************************************************************************)
(* toml_file::load (toml_file.rs:22-44): File::open, read_to_string,       *)
(* toml::from_str; each failure is returned as an error.                   *)
(***************************************************************************)
load(fs, path) ==
    IF ~fs[path].exists
    THEN [kind |-> "Err", err |-> "NotFound", created |-> 0, value |-> <<>>]
    ELSE LET p == from_str(fs[path].bytes)
         IN  IF p.ok
             THEN [kind |-> "Ok", err |-> "", created |-> p.created, value |-> p.value]
             ELSE [kind |-> "Err", err |-> "Format", created |-> 0, value |-> <<>>]

\* Duration - Duration (cache.rs:114) panics when the result would be negative.
DurationSubPanics(a, b) == a < b

\* The freshness test of load_cached (cache.rs:114).
IsFresh(clock, created, max_cache_age) == clock - created < max_cache_age

\* load_cached reporting every failure to load as a miss.
load_cached_miss_on_error(fs, max_cache_age, clock, file_name) ==
    LET cached == load(fs, file_name)
    IN  IF cached.kind = "Err"
        THEN [kind |-> "None", err |-> "", val |-> <<>>]
        ELSE IF DurationSubPanics(clock, cached.created)
        THEN [kind |-> "Panic", err |-> "", val |-> <<>>]
        ELSE IF IsFresh(clock, cached.created, max_cache_age)
        THEN [kind |-> "Some", err |-> "", val |-> cached.value]
        ELSE [kind |-> "None", err |-> "", val |-> <<>>]

(***************************************************************************)
(* Cache::load_cached (cache.rs:105-119).                                  *)
(***************************************************************************)
load_cached(fs, max_cache_age, clock, file_name) ==
    LET cached == load(fs, file_name)
    IN  IF cached.kind = "Err"
        THEN [kind |-> "Err", err |-> cached.err, val |-> <<>>]
        ELSE IF DurationSubPanics(clock, cached.created)
        THEN [kind |-> "Panic", err |-> "", val |-> <<>>]
        ELSE IF IsFresh(clock, cached.created, max_cache_age)
        THEN [kind |-> "Some", err |-> "", val |-> cached.value]
        ELSE [kind |-> "None", err |-> "", val |-> <<>>]

(***************************************************************************)
(* Cache::store_cache (cache.rs:125-132): writes to_cache as it is given.  *)
(***************************************************************************)
store_cache(fs, file_name, to_cache, io) == replace(fs, file_name, to_cache, io)

\* The name with_cached hands to load_cached (cache.rs:154).
LookupName(file_name) == PROMPTS_TOML

\* What a loader does: fails, or returns a payload.
LoaderOutcomes == {[ok |-> FALSE, val |-> <<>>]} \cup {[ok |-> TRUE, val |-> v] : v \in Payloads}

\* with_cached storing an empty Value when the loader fails.
with_cached_stores_on_failure(fs, max_cache_age, clock, file_name, loader, took, io) ==
    LET lc == load_cached(fs, max_cache_age, clock, LookupName(file_name))
        cached == ValueFrom(clock + took, loader.val)
        st == store_cache(fs, file_name, cached, io)
    IN  IF lc.kind = "Some"
        THEN [kind |-> "Ok", err |-> "", val |-> lc.val, calls |-> 0,
              files |-> fs, clock |-> clock]
        ELSE IF lc.kind = "Panic"
        THEN [kind |-> "Panic", err |-> "", val |-> <<>>, calls |-> 0,
              files |-> fs, clock |-> clock]
        ELSE IF ~loader.ok
        THEN [kind |-> "Err", err |-> "Loader", val |-> <<>>, calls |-> 1,
              files |-> st.files, clock |-> clock + took]
        ELSE IF st.kind = "Err"
        THEN [kind |-> "Err", err |-> st.err, val |-> <<>>, calls |-> 1,
              files |-> st.files, clock |-> clock + took]
        ELSE [kind |-> "Ok", err |-> "", val |-> cached.value, calls |-> 1,
              files |-> st.files, clock |-> clock + took]

\* with_cached rewriting the entry it hits with the time of the hit.
with_cached_touches_on_hit(fs, max_cache_age, clock, file_name, loader, took, io) ==
    LET lc == load_cached(fs, max_cache_age, clock, LookupName(file_name))
    IN  IF lc.kind = "Some"
        THEN [kind |-> "Ok", err |-> "", val |-> lc.val, calls |-> 0,
              files |-> store_cache(fs, LookupName(file_name),
                                    ValueFrom(clock + took, lc.val), IoOk).files,
              clock |-> clock + took]
        ELSE IF lc.kind = "Panic"
        THEN [kind |-> "Panic", err |-> "", val |-> <<>>, calls |-> 0,
              files |-> fs, clock |-> clock]
        ELSE IF ~loader.ok
        THEN [kind |-> "Err", err |-> "Loader", val |-> <<>>, calls |-> 1,
              files |-> fs, clock |-> clock + took]
        ELSE LET cached == ValueFrom(clock + took, loader.val)
                 st == store_cache(fs, file_name, cached, io)
             IN  IF st.kind = "Err"
                 THEN [kind |-> "Err", err |-> st.err, val |-> <<>>, calls |-> 1,
                       files |-> st.files, clock |-> clock + took]
                 ELSE [kind |-> "Ok", err |-> "", val |-> cached.value, calls |-> 1,
                       files |-> st.files, clock |-> clock + took]

(***************************************************************************)
(* Cache::with_cached (cache.rs:144-163).  The loader runs for `took`      *)
(* ticks; Value::from reads the clock after it.                            *)
(***************************************************************************)
with_cached(fs, max_cache_age, clock, file_name, loader, took, io) ==
    LET lc == load_cached(fs, max_cache_age, clock, LookupName(file_name))
    IN  IF lc.kind = "Some"
        THEN [kind |-> "Ok", err |-> "", val |-> lc.val, calls |-> 0,
              files |-> fs, clock |-> clock]
        ELSE IF lc.kind = "Panic"
        THEN [kind |-> "Panic", err |-> "", val |-> <<>>, calls |-> 0,
              files |-> fs, clock |-> clock]
        ELSE IF ~loader.ok
        THEN [kind |-> "Err", err |-> "Loader", val |-> <<>>, calls |-> 1,
              files |-> fs, clock |-> clock + took]
        ELSE LET cached == ValueFrom(clock + took, loader.val)
                 st == store_cache(fs, file_name, cached, io)
             IN  IF st.kind = "Err"
                 THEN [kind |-> "Err", err |-> st.err, val |-> <<>>, calls |-> 1,
                       files |-> st.files, clock |-> clock + took]
                 ELSE [kind |-> "Ok", err |-> "", val |-> cached.value, calls |-> 1,
                       files |-> st.files, clock |-> clock + took]

\* check_or_create_dir without the is_dir test.
check_or_create_dir_any_path(dir, mkdirOk) ==
    IF dir # "absent" THEN [kind |-> "Ok", dir |-> dir]
    ELSE IF mkdirOk THEN [kind |-> "Ok", dir |-> "dir"]
                    ELSE [kind |-> "Err", dir |-> dir]

\* check_or_create_dir taking a refused create_dir for a success.
check_or_create_dir_ignores_refusal(dir, mkdirOk) ==
    IF dir # "absent"
    THEN IF dir # "dir" THEN [kind |-> "Err", dir |-> dir]
                        ELSE [kind |-> "Ok", dir |-> dir]
    ELSE IF mkdirOk THEN [kind |-> "Ok", dir |-> "dir"]
                    ELSE [kind |-> "Ok", dir |-> dir]

(***************************************************************************)
(* check_or_create_dir (cache.rs:69-89): a path that exists must be a      *)
(* directory; an absent one is created, which the file system may refuse.  *)
(***************************************************************************)
check_or_create_dir(dir, mkdirOk) ==
    IF dir # "absent"
    THEN IF dir # "dir" THEN [kind |-> "Err", dir |-> dir]
                        ELSE [kind |-> "Ok", dir |-> dir]
    ELSE IF mkdirOk THEN [kind |-> "Ok", dir |-> "dir"]
                    ELSE [kind |-> "Err", dir |-> dir]

\* The record of a call: the operation, its file_name, what store_cache was
\* given ("Value", "Vec", "Record"), the kind of result, the error, the payload
\* returned (for store_cache: handed in) and how often the loader ran.
NoCall ==
    [op |-> "none", name |-> "", given |-> "", kind |-> "", err |-> "", val |-> <<>>,
     calls |-> 0]
Call(op, name, given, kind, err, val, calls) ==
    [op |-> op, name |-> name, given |-> given, kind |-> kind, err |-> err, val |-> val,
     calls |-> calls]

NoCache == [init |-> FALSE, max_cache_age |-> 0]

\* The tasks that may call with_cached at the same time.
Callers == {"A", "B"}

\* A caller that is in no call.
Idle == [pc |-> "idle", name |-> "", val |-> <<>>, created |-> 0]

\* No run of PromptLoader.
NoPrompts ==
    [sources |-> <<>>, stage |-> "none", kind |-> "", results |-> <<>>, valid |-> <<>>]

Init ==
    /\ dirState \in {"absent", "file", "dir"}
    /\ files = [n \in Names |-> Absent]
    /\ now = 0
    /\ cache = NoCache
    /\ last = NoCall
    /\ inflight = [c \in Callers |-> Idle]
    /\ prompts = NoPrompts

\* cache::init / Cache::init (cache.rs:23-28, 96-99).
CacheInit ==
    \E max_cache_age \in Ages, mkdirOk \in BOOLEAN :
        LET r == check_or_create_dir(dirState, mkdirOk)
        IN  /\ ~cache.init
            /\ dirState' = r.dir
            /\ cache' = IF r.kind = "Ok"
                        THEN [init |-> TRUE, max_cache_age |-> max_cache_age]
                        ELSE cache
            /\ last' = Call("init", "", "", r.kind, "", <<>>, 0)
            /\ UNCHANGED <<files, now>>

\* load_cached removing the entry it finds stale.
LoadCachedDropsStale ==
    \E file_name \in Names :
        LET r == load_cached(files, cache.max_cache_age, now, file_name)
        IN  /\ cache.init
            /\ last' = Call("load_cached", file_name, "", r.kind, r.err, r.val, 0)
            /\ files' = IF r.kind = "None"
                         THEN [files EXCEPT ![file_name] = Absent]
                         ELSE files
            /\ UNCHANGED <<dirState, now, cache>>

\* A call of load_cached.
LoadCached ==
    \E file_name \in Names :
        LET r == load_cached(files, cache.max_cache_age, now, file_name)
        IN  /\ cache.init
            /\ last' = Call("load_cached", file_name, "", r.kind, r.err, r.val, 0)
            /\ UNCHANGED <<dirState, files, now, cache>>

\* What callers hand to store_cache at time clock: a Value just built from a
\* payload (main.rs:257-258), a bare payload, or a bare record.
ToCache(clock) ==
    {ValueFrom(clock, v) : v \in Payloads} \cup {VecOf(v) : v \in Payloads}
    \cup {RecordOf(1)}

\* A call of store_cache.  The file system is reached only when to_cache
\* serializes.
StoreCache ==
    \E file_name \in Names, to_cache \in ToCache(now), io \in IoOutcomes :
        LET r == store_cache(files, file_name, to_cache, io)
        IN  /\ cache.init
            /\ to_string_pretty(to_cache).ok \/ io = IoOk
            /\ files' = r.files
            /\ last' = Call("store_cache", file_name, to_cache.tag, r.kind, r.err,
                            to_cache.value, 0)
            /\ UNCHANGED <<dirState, now, cache>>

\* A call of with_cached.  The file system is written only when the loader
\* succeeds.
WithCached ==
    \E file_name \in Names, loader \in LoaderOutcomes, took \in 0..1, io \in IoOutcomes :
        LET r == with_cached(files, cache.max_cache_age, now, file_name, loader, took, io)
        IN  /\ cache.init
            /\ loader.ok \/ io = IoOk
            /\ now + took <= MaxTime
            /\ files' = r.files
            /\ now' = r.clock
            /\ last' = Call("with_cached", file_name, "", r.kind, r.err, r.val, r.calls)
            /\ UNCHANGED <<dirState, cache>>

\* The wall clock advances.
Tick ==
    /\ now < MaxTime
    /\ now' = now + 1
    /\ last' = NoCall
    /\ UNCHANGED <<dirState, files, cache>>

\* The wall clock is set back.
ClockBack ==
    /\ now > 0
    /\ now' = now - 1
    /\ last' = NoCall
    /\ UNCHANGED <<dirState, files, cache>>

\* Contents no store of the cache writes: no TOML, or TOML of another schema.
NonConforming == {<<<<"junk", 0>>>>, <<<<"field", 1>>>>}

\* Something else writes non-conforming bytes to an entry's file.
Corrupt ==
    \E file_name \in Names, bytes \in NonConforming :
        /\ dirState = "dir"
        /\ files' = [files EXCEPT ![file_name] = FileOf(bytes)]
        /\ last' = NoCall
        /\ UNCHANGED <<dirState, now, cache>>

\* The process ends; its files stay on disk for the next run.
Exit ==
    /\ cache.init
    /\ cache' = NoCache
    /\ last' = NoCall
    /\ UNCHANGED <<dirState, files, now>>

\* One call at a time: every call returns before the next one starts.
Next ==
    \/ CacheInit /\ UNCHANGED <<inflight, prompts>>
    \/ LoadCached /\ UNCHANGED <<inflight, prompts>>
    \/ StoreCache /\ UNCHANGED <<inflight, prompts>>
    \/ WithCached /\ UNCHANGED <<inflight, prompts>>
    \/ Tick /\ UNCHANGED <<inflight, prompts>>
    \/ ClockBack /\ UNCHANGED <<inflight, prompts>>
    \/ Corrupt /\ UNCHANGED <<inflight, prompts>>
    \/ Exit /\ UNCHANGED <<inflight, prompts>>

Spec == Init /\ [][Next]_vars

TypeOK ==
    /\ dirState \in {"absent", "file", "dir"}
    /\ now \in Times
    /\ cache.max_cache_age \in Ages
    /\ \A n \in Names : files[n].exists \in BOOLEAN

----------------------------------------------------------------------------
(* The Cache of the command line program (main.rs:40-120), which main       *)
(* builds from its arguments and which checks the directory in every call.  *)

\* impl From<T> for CachedValue<T> (main.rs:186-197).
CachedValueFrom(clock, v) == ValueOf(clock, v)

\* Cache::check_or_create (main.rs:47-56).
check_or_create(dir, mkdirOk) ==
    IF dir # "absent"
    THEN IF dir # "dir" THEN [kind |-> "Err", dir |-> dir]
                        ELSE [kind |-> "Ok", dir |-> dir]
    ELSE IF mkdirOk THEN [kind |-> "Ok", dir |-> "dir"]
                    ELSE [kind |-> "Err", dir |-> dir]

\* load_cached checking the directory before it looks at the cache flag.
cli_load_cached_checks_dir_first(fs, dir, c, clock, file_name, mkdirOk) ==
    LET d == check_or_create(dir, mkdirOk)
        cached == load(fs, file_name)
    IN  IF d.kind = "Err" THEN [kind |-> "Err", err |-> "Dir", val |-> <<>>, dir |-> d.dir]
        ELSE IF ~c.cache THEN [kind |-> "None", err |-> "", val |-> <<>>, dir |-> d.dir]
        ELSE IF cached.kind = "Err"
        THEN [kind |-> "Err", err |-> cached.err, val |-> <<>>, dir |-> d.dir]
        ELSE IF DurationSubPanics(clock, cached.created)
        THEN [kind |-> "Panic", err |-> "", val |-> <<>>, dir |-> d.dir]
        ELSE IF clock - cached.created < c.max_cache_age
        THEN [kind |-> "Some", err |-> "", val |-> cached.value, dir |-> d.dir]
        ELSE [kind |-> "None", err |-> "", val |-> <<>>, dir |-> d.dir]

(***************************************************************************)
(* Cache::load_cached (main.rs:58-78): None at once when caching is off;   *)
(* otherwise check_or_create, read_to_string, from_str and the freshness   *)
(* test.                                                                   *)
(***************************************************************************)
cli_load_cached(fs, dir, c, clock, file_name, mkdirOk) ==
    LET d == check_or_create(dir, mkdirOk)
        cached == load(fs, file_name)
    IN  IF ~c.cache THEN [kind |-> "None", err |-> "", val |-> <<>>, dir |-> dir]
        ELSE IF d.kind = "Err" THEN [kind |-> "Err", err |-> "Dir", val |-> <<>>, dir |-> d.dir]
        ELSE IF cached.kind = "Err"
        THEN [kind |-> "Err", err |-> cached.err, val |-> <<>>, dir |-> d.dir]
        ELSE IF DurationSubPanics(clock, cached.created)
        THEN [kind |-> "Panic", err |-> "", val |-> <<>>, dir |-> d.dir]
        ELSE IF clock - cached.created < c.max_cache_age
        THEN [kind |-> "Some", err |-> "", val |-> cached.value, dir |-> d.dir]
        ELSE [kind |-> "None", err |-> "", val |-> <<>>, dir |-> d.dir]

\* write_all at offset 0 of a file that was opened without truncation: the
\* bytes beyond the ones written stay.
WriteOver(old, new) == new \o SubSeq(old, Len(new) + 1, Len(old))

(***************************************************************************)
(* Cache::store_cache (main.rs:80-97): check_or_create, serialize, open    *)
(* with read, write and create (no truncate), seek to 0, write_all.        *)
(***************************************************************************)
cli_store_cache(fs, dir, file_name, to_cache, mkdirOk, io) ==
    LET d == check_or_create(dir, mkdirOk)
        ser == to_string_pretty(to_cache)
        old == fs[file_name].bytes
    IN  IF d.kind = "Err" THEN [kind |-> "Err", err |-> "Dir", files |-> fs, dir |-> d.dir]
        ELSE IF ~ser.ok THEN [kind |-> "Err", err |-> "Serialize", files |-> fs, dir |-> d.dir]
        ELSE IF io.kind = "create_err"
        THEN [kind |-> "Err", err |-> "Io", files |-> fs, dir |-> d.dir]
        ELSE IF io.kind = "write_err"
        THEN [kind |-> "Err", err |-> "Io", dir |-> d.dir,
              files |-> [fs EXCEPT ![file_name] =
                            FileOf(WriteOver(old, SubSeq(ser.bytes, 1,
                                                 Min(io.written, Len(ser.bytes) - 1))))]]
        ELSE [kind |-> "Ok", err |-> "", dir |-> d.dir,
              files |-> [fs EXCEPT ![file_name] = FileOf(WriteOver(old, ser.bytes))]]

(***************************************************************************)
(* Cache::with_cached (main.rs:99-120): the lookup reads "prompts.toml";   *)
(* the result of the loader is stored only when caching is on.             *)
(***************************************************************************)
cli_with_cached(fs, dir, c, clock, file_name, loader, took, mkdirOk, mkdirOk2, io) ==
    LET lc == cli_load_cached(fs, dir, c, clock, PROMPTS_TOML, mkdirOk)
    IN  IF lc.kind = "Some"
        THEN [kind |-> "Ok", err |-> "", val |-> lc.val, calls |-> 0,
              files |-> fs, dir |-> lc.dir, clock |-> clock]
        ELSE IF lc.kind = "Panic"
        THEN [kind |-> "Panic", err |-> "", val |-> <<>>, calls |-> 0,
              files |-> fs, dir |-> lc.dir, clock |-> clock]
        ELSE IF ~loader.ok
        THEN [kind |-> "Err", err |-> "Loader", val |-> <<>>, calls |-> 1,
              files |-> fs, dir |-> lc.dir, clock |-> clock + took]
        ELSE LET cached == CachedValueFrom(clock + took, loader.val)
                 st == cli_store_cache(fs, lc.dir, file_name, cached, mkdirOk2, io)
             IN  IF ~c.cache
                 THEN [kind |-> "Ok", err |-> "", val |-> cached.value, calls |-> 1,
                       files |-> fs, dir |-> lc.dir, clock |-> clock + took]
                 ELSE IF st.kind = "Err"
                 THEN [kind |-> "Err", err |-> st.err, val |-> <<>>, calls |-> 1,
                       files |-> st.files, dir |-> st.dir, clock |-> clock + took]
                 ELSE [kind |-> "Ok", err |-> "", val |-> cached.value, calls |-> 1,
                       files |-> st.files, dir |-> st.dir, clock |-> clock + took]

\* main builds its Cache from the arguments (main.rs:200-206).
CliStart ==
    \E enabled \in BOOLEAN, max_cache_age \in Ages :
        /\ ~cache.init
        /\ cache' = [init |-> TRUE, max_cache_age |-> max_cache_age, cache |-> enabled]
        /\ last' = NoCall
        /\ UNCHANGED <<dirState, files, now>>

\* A call of the program's load_cached (main.rs:250).  Whether create_dir
\* would succeed is drawn only where it is called.
CliLoadCached ==
    \E file_name \in Names, mkdirOk \in BOOLEAN :
        LET r == cli_load_cached(files, dirState, cache, now, file_name, mkdirOk)
        IN  /\ cache.init
            /\ dirState = "absent" \/ mkdirOk
            /\ dirState' = r.dir
            /\ last' = Call("load_cached", file_name, "", r.kind, r.err, r.val, 0)
            /\ UNCHANGED <<files, now, cache>>

\* A call of the program's store_cache, which main makes only when caching
\* is on, with a CachedValue just built (main.rs:256-259).
CliStoreCache ==
    \E file_name \in Names, v \in Payloads, mkdirOk \in BOOLEAN, io \in IoOutcomes :
        LET r == cli_store_cache(files, dirState, file_name, CachedValueFrom(now, v),
                                 mkdirOk, io)
        IN  /\ cache.init
            /\ cache.cache
            /\ dirState = "absent" \/ mkdirOk
            /\ r.dir = "dir" \/ io = IoOk
            /\ dirState' = r.dir
            /\ files' = r.files
            /\ last' = Call("store_cache", file_name, "Value", r.kind, r.err, v, 0)
            /\ UNCHANGED <<now, cache>>

\* A call of the program's with_cached, which main makes for "prompts.toml"
\* (main.rs:214-216, 228-230).
CliWithCached ==
    \E loader \in LoaderOutcomes, took \in 0..1, mkdirOk \in BOOLEAN, mkdirOk2 \in BOOLEAN,
       io \in IoOutcomes :
        LET r == cli_with_cached(files, dirState, cache, now, PROMPTS_TOML, loader, took,
                                 mkdirOk, mkdirOk2, io)
        IN  /\ cache.init
            /\ dirState = "absent" \/ mkdirOk
            /\ ( dirState = "absent" /\ ~mkdirOk ) \/ mkdirOk2
            /\ ( loader.ok /\ cache.cache ) \/ io = IoOk
            /\ now + took <= MaxTime
            /\ dirState' = r.dir
            /\ files' = r.files
            /\ now' = r.clock
            /\ last' = Call("with_cached", PROMPTS_TOML, "", r.kind, r.err, r.val, r.calls)
            /\ UNCHANGED cache

NextMain ==
    \/ CliStart /\ UNCHANGED <<inflight, prompts>>
    \/ CliLoadCached /\ UNCHANGED <<inflight, prompts>>
    \/ CliStoreCache /\ UNCHANGED <<inflight, prompts>>
    \/ CliWithCached /\ UNCHANGED <<inflight, prompts>>
    \/ Tick /\ UNCHANGED <<inflight, prompts>>
    \/ ClockBack /\ UNCHANGED <<inflight, prompts>>
    \/ Corrupt /\ UNCHANGED <<inflight, prompts>>
    \/ Exit /\ UNCHANGED <<inflight, prompts>>

SpecMain == Init /\ [][NextMain]_vars

----------------------------------------------------------------------------
(* Overlapping calls of the library's with_cached (cache.rs:144-163).  The  *)
(* call suspends at each await: after the lookup, after the loader, after   *)
(* File::create and after write_all (toml_file.rs:17-18), and another       *)
(* caller may run in between.                                               *)

\* The bytes the store of caller c writes.
BytesOf(c) == to_string_pretty(ValueOf(inflight[c].created, inflight[c].val)).bytes

\* write_all of new at offset 0 of a file that holds old.
WriteAt0(old, new) == new \o SubSeq(old, Len(new) + 1, Len(old))

\* with_cached up to the lookup (cache.rs:154-155): a hit returns at once.
Lookup(c) ==
    \E file_name \in Names :
        LET lc == load_cached(files, cache.max_cache_age, now, LookupName(file_name))
        IN  /\ cache.init
            /\ inflight[c].pc = "idle"
            /\ IF lc.kind = "Some"
               THEN /\ last' = Call("with_cached", file_name, "", "Ok", "", lc.val, 0)
                    /\ UNCHANGED inflight
               ELSE IF lc.kind = "Panic"
               THEN /\ last' = Call("with_cached", file_name, "", "Panic", "", <<>>, 0)
                    /\ UNCHANGED inflight
               ELSE /\ inflight' = [inflight EXCEPT ![c] =
                                        [pc |-> "loading", name |-> file_name,
                                         val |-> <<>>, created |-> 0]]
                    /\ UNCHANGED last
            /\ UNCHANGED <<dirState, files, now, cache>>

\* The loader returns (cache.rs:157); Value::from reads the clock
\* (cache.rs:158).
LoaderReturns(c) ==
    \E loader \in LoaderOutcomes :
        /\ inflight[c].pc = "loading"
        /\ IF loader.ok
           THEN /\ inflight' = [inflight EXCEPT ![c] =
                                    [pc |-> "creating", name |-> inflight[c].name,
                                     val |-> loader.val, created |-> now]]
                /\ UNCHANGED last
           ELSE /\ inflight' = [inflight EXCEPT ![c] = Idle]
                /\ last' = Call("with_cached", inflight[c].name, "", "Err", "Loader", <<>>, 1)
        /\ UNCHANGED <<dirState, files, now, cache>>

\* File::create (toml_file.rs:17): the file is created or truncated, or the
\* error is returned.
Create(c) ==
    \E ok \in BOOLEAN :
        /\ inflight[c].pc = "creating"
        /\ IF ok
           THEN /\ files' = [files EXCEPT ![inflight[c].name] = FileOf(<<>>)]
                /\ inflight' = [inflight EXCEPT ![c].pc = "writing"]
                /\ UNCHANGED last
           ELSE /\ inflight' = [inflight EXCEPT ![c] = Idle]
                /\ last' = Call("with_cached", inflight[c].name, "", "Err", "Io", <<>>, 1)
                /\ UNCHANGED files
        /\ UNCHANGED <<dirState, now, cache>>

\* write_all (toml_file.rs:18) through the caller's own handle, at offset 0,
\* and the return of with_cached (cache.rs:160).
Write(c) ==
    \E io \in IoOutcomes \ {[kind |-> "create_err", written |-> 0]} :
        LET name == inflight[c].name
            bytes == IF io.kind = "ok" THEN BytesOf(c)
                     ELSE SubSeq(BytesOf(c), 1, Min(io.written, Len(BytesOf(c)) - 1))
        IN  /\ inflight[c].pc = "writing"
            /\ files' = [files EXCEPT ![name] = FileOf(WriteAt0(files[name].bytes, bytes))]
            /\ inflight' = [inflight EXCEPT ![c] = Idle]
            /\ last' = IF io.kind = "ok"
                        THEN Call("with_cached", name, "", "Ok", "", inflight[c].val, 1)
                        ELSE Call("with_cached", name, "", "Err", "Io", <<>>, 1)
            /\ UNCHANGED <<dirState, now, cache>>

\* The process is killed while caller c is in write_all: any number of its
\* items short of all has reached the file, and every call in flight is gone.
Interrupt(c) ==
    \E written \in 0..MaxLen :
        LET name == inflight[c].name
        IN  /\ inflight[c].pc = "writing"
            /\ written < Len(BytesOf(c))
            /\ files' = [files EXCEPT ![name] =
                            FileOf(WriteAt0(files[name].bytes, SubSeq(BytesOf(c), 1, written)))]
            /\ inflight' = [d \in Callers |-> Idle]
            /\ cache' = NoCache
            /\ last' = NoCall
            /\ UNCHANGED <<dirState, now>>

NextConc ==
    \/ CacheInit /\ UNCHANGED <<inflight, prompts>>
    \/ \E c \in Callers : Lookup(c) /\ UNCHANGED prompts
    \/ \E c \in Callers : LoaderReturns(c) /\ UNCHANGED prompts
    \/ \E c \in Callers : Create(c) /\ UNCHANGED prompts
    \/ \E c \in Callers : Write(c) /\ UNCHANGED prompts
    \/ \E c \in Callers : Interrupt(c) /\ UNCHANGED prompts
    \/ Tick /\ UNCHANGED <<inflight, prompts>>
    \/ ClockBack /\ UNCHANGED <<inflight, prompts>>
    \/ Corrupt /\ UNCHANGED <<inflight, prompts>>

SpecConc == Init /\ [][NextConc]_vars

----------------------------------------------------------------------------
(* PromptLoader (chatgpt-prompts/src/lib.rs:49-131) and valid_prompts       *)
(* (main.rs:123-126).  What a source holds is its CSV records after the     *)
(* header line, in the order of the bytes, each one a record that           *)
(* deserializes to a Prompt or one that does not; a Prompt is told from the *)
(* others of its source by the number of its record.                        *)

\* One call is given at most MaxSources sources.
MaxSources == 2
\* A source holds at most MaxRecords records.
MaxRecords == 2

\* The records of a source: TRUE for one that deserializes to a Prompt.
RecordLists == UNION {[1..n -> BOOLEAN] : n \in 0..MaxRecords}

\* Source (lib.rs:17-21) with what the network or the file system answers
\* when it is fetched: Raw holds its bytes, Http and File are fetched and
\* the fetch may fail.
Sources ==
    {[kind |-> "Raw", fetched |-> TRUE, records |-> r] : r \in RecordLists}
    \cup {[kind |-> k, fetched |-> TRUE, records |-> r] :
             k \in {"Http", "File"}, r \in RecordLists}
    \cup {[kind |-> k, fetched |-> FALSE, records |-> <<>>] : k \in {"Http", "File"}}

\* The slices of sources a call is given.
SourceLists == UNION {[1..n -> Sources] : n \in 0..MaxSources}

\* Prompt (lib.rs:37-41) of record number j.
Prompt(j) == [act |-> j, prompt |-> j]

\* Ok(Prompt) of a Result<Prompt> (lib.rs:16, 37-41).
OkPrompt(j) == [kind |-> "Ok", err |-> "", prompt |-> Prompt(j)]

\* Err(Error) of a Result<Prompt> (lib.rs:44-47).
ErrPrompt(e) == [kind |-> "Err", err |-> e, prompt |-> Prompt(0)]

\* PromptLoader::parse_bytes (lib.rs:78-88): the reader yields one result
\* for each record, a deserialization error becoming FormatError.
parse_bytes(b) ==
    [j \in 1..Len(b) |-> IF b[j] THEN OkPrompt(j) ELSE ErrPrompt("FormatError")]

\* PromptLoader::load_file (lib.rs:90-95).
load_file(source) ==
    IF source.fetched THEN [kind |-> "Ok", bytes |-> source.records]
    ELSE [kind |-> "Err", bytes |-> <<>>]

\* PromptLoader::send (lib.rs:113-121).
send(source) ==
    IF source.fetched THEN [kind |-> "Ok", bytes |-> source.records]
    ELSE [kind |-> "Err", bytes |-> <<>>]

\* parse_source giving nothing for a source that failed to load.
parse_source_drops_failed(source) ==
    IF source.kind = "Http"
    THEN LET b == send(source)
         IN  IF b.kind = "Ok" THEN parse_bytes(b.bytes) ELSE <<>>
    ELSE IF source.kind = "File"
    THEN LET b == load_file(source)
         IN  IF b.kind = "Ok" THEN parse_bytes(b.bytes) ELSE <<>>
    ELSE parse_bytes(source.records)

\* PromptLoader::parse_source (lib.rs:97-111).
parse_source(source) ==
    IF source.kind = "Http"
    THEN LET b == send(source)
         IN  IF b.kind = "Ok" THEN parse_bytes(b.bytes) ELSE <<ErrPrompt("LoadError")>>
    ELSE IF source.kind = "File"
    THEN LET b == load_file(source)
         IN  IF b.kind = "Ok" THEN parse_bytes(b.bytes) ELSE <<ErrPrompt("LoadError")>>
    ELSE parse_bytes(source.records)

\* The loop of PromptLoader::load (lib.rs:125-128) over the sources left.
RECURSIVE load_loop(_, _)
load_loop(sources, result) ==
    IF sources = <<>> THEN result
    ELSE load_loop(Tail(sources), result \o parse_source(Head(sources)))

\* PromptLoader::load (lib.rs:123-130).
PromptLoader_load(sources) == load_loop(sources, <<>>)

\* valid_prompts (main.rs:123-126): filter_map keeps what Result::ok gives.
valid_prompts(sources) ==
    LET results == PromptLoader_load(sources)
        oks == SelectSeq(results, LAMBDA e : e.kind = "Ok")
    IN  [kind |-> "Ok",
         results |-> results,
         val |-> [k \in 1..Len(oks) |-> oks[k].prompt]]

\* A call that is given sources and has not run yet.
Given(sources) ==
    [sources |-> sources, stage |-> "given", kind |-> "", results |-> <<>>, valid |-> <<>>]

InitPrompts ==
    /\ dirState = "absent"
    /\ files = [n \in Names |-> Absent]
    /\ now = 0
    /\ cache = NoCache
    /\ last = NoCall
    /\ inflight = [c \in Callers |-> Idle]
    /\ prompts \in {Given(sources) : sources \in SourceLists}

\* A call of PromptLoader::load.
PromptLoaderLoad ==
    /\ prompts.stage = "given"
    /\ prompts' = [prompts EXCEPT !.stage = "loaded",
                                  !.kind = "",
                                  !.results = PromptLoader_load(prompts.sources)]
    /\ UNCHANGED <<dirState, files, now, cache, last, inflight>>

\* A call of valid_prompts.
ValidPrompts ==
    LET v == valid_prompts(prompts.sources)
    IN  /\ prompts.stage = "given"
        /\ prompts' = [prompts EXCEPT !.stage = "valid",
                                      !.kind = v.kind,
                                      !.results = v.results,
                                      !.valid = v.val]
        /\ UNCHANGED <<dirState, files, now, cache, last, inflight>>

NextPrompts ==
    \/ PromptLoaderLoad
    \/ ValidPrompts

SpecPrompts == InitPrompts /\ [][NextPrompts]_vars

----------------------------------------------------------------------------
(* The claims.  `last` is the call that has just returned, so a state       *)
(* predicate on `last` speaks of the state right after that call, and in a  *)
(* step the unprimed `last` is the call before the one the step makes.      *)

\* The Value the entry under file_name parses to (kind "Err" when it does not).
Entry(fs, file_name) == load(fs, file_name)

\* The bytes a store writes for a Value of payload v created at t.
EnvelopeBytes(t, v) == to_string_pretty(ValueOf(t, v)).bytes

\* C1: for every name, with_cached on an empty cache directory invokes the
\* loader exactly once and, when it returns Ok, has persisted the result under
\* that name; a second with_cached with the same name made within
\* max_cache_age does not invoke its loader and returns the first value.
C1_MissThenHit ==
    [][\A n \in Names :
        /\ ( /\ \A m \in Names : files[m] = Absent
             /\ last'.op = "with_cached" /\ last'.name = n
             /\ last'.kind # "Panic" )
           => /\ last'.calls = 1
              /\ last'.kind = "Ok" =>
                    /\ Entry(files', n).kind = "Ok"
                    /\ Entry(files', n).value = last'.val
        /\ ( /\ last.op = "with_cached" /\ last.name = n
             /\ last.kind = "Ok" /\ last.calls = 1
             /\ \A m \in Names \ {n} : files[m] = Absent
             /\ Entry(files, n).kind = "Ok"
             /\ now >= Entry(files, n).created
             /\ now - Entry(files, n).created < cache.max_cache_age
             /\ last'.op = "with_cached" /\ last'.name = n )
           => /\ last'.calls = 0
              /\ last'.kind = "Ok"
              /\ last'.val = last.val
      ]_vars

\* Contents an entry under another name can have at time clock: none,
\* non-conforming bytes, or a Value some store wrote at or before clock.
OtherContents(clock) ==
    {Absent} \cup {FileOf(b) : b \in NonConforming}
    \cup {FileOf(EnvelopeBytes(t, v)) : t \in 0..clock, v \in Payloads}

\* C2: what with_cached(name, ...) returns and whether it invokes the loader
\* depend only on the entry under name and the clock: changing the entry under
\* another name changes neither.
C2_OnlyOwnEntry ==
    cache.init =>
        \A n \in Names, loader \in LoaderOutcomes :
            \A m \in Names \ {n}, f \in OtherContents(now) :
                LET a == with_cached(files, cache.max_cache_age, now, n, loader, 0, IoOk)
                    b == with_cached([files EXCEPT ![m] = f], cache.max_cache_age, now,
                                     n, loader, 0, IoOk)
                IN  /\ a.kind = b.kind
                    /\ a.calls = b.calls
                    /\ a.val = b.val

\* C3: load_cached of an entry stored at t0 returns Some(value) at every time
\* t with t - t0 < max_cache_age and None at every time t with
\* t - t0 >= max_cache_age.
C3_FreshnessBoundary ==
    (last.op = "load_cached" /\ Entry(files, last.name).kind = "Ok") =>
        LET e == Entry(files, last.name)
        IN  /\ now - e.created < cache.max_cache_age
                => (last.kind = "Some" /\ last.val = e.value)
            /\ now - e.created >= cache.max_cache_age
                => last.kind = "None"

\* C3, for the times at or after t0 only: the boundary is strict, an entry of
\* age exactly max_cache_age is stale.
C3_BoundaryFromStoreOn ==
    ( /\ last.op = "load_cached"
      /\ Entry(files, last.name).kind = "Ok"
      /\ now >= Entry(files, last.name).created ) =>
        LET e == Entry(files, last.name)
        IN  /\ now - e.created < cache.max_cache_age
                => (last.kind = "Some" /\ last.val = e.value)
            /\ now - e.created >= cache.max_cache_age
                => last.kind = "None"

C5_AbsentIsNone ==
    (last.op = "load_cached" /\ ~files[last.name].exists) => last.kind = "None"

\* C6: for every name, with_cached on an entry holding non-conforming bytes
\* invokes the loader and does not return the read error; when it returns Ok
\* the file holds a valid Value, so that load_cached(name) right after returns
\* Some(the loader's result) (under max_cache_age > 0).
C6_SelfHealing ==
    [][\A n \in Names :
        ( /\ Entry(files, n).err = "Format"
          /\ last'.op = "with_cached" /\ last'.name = n )
        => /\ last'.calls = 1
           /\ last'.kind \in {"Ok", "Err"}
           /\ last'.kind = "Err" => last'.err \in {"Loader", "Io"}
           /\ (last'.kind = "Ok" /\ cache.max_cache_age > 0) =>
                 LET lc == load_cached(files', cache.max_cache_age, now', n)
                 IN  lc.kind = "Some" /\ lc.val = last'.val
      ]_vars

\* C7: when the loader fails, with_cached returns the loader's error and no
\* file is created or modified.
C7_LoaderFailureLeavesCache ==
    [][( last'.op = "with_cached" /\ last'.err = "Loader" )
       => /\ last'.kind = "Err"
          /\ last'.calls = 1
          /\ files' = files
          /\ dirState' = dirState
      ]_vars

\* A with_cached has returned the loader's error while the entry under its
\* name was non-conforming.
C7_Witness ==
    /\ last.op = "with_cached" /\ last.kind = "Err" /\ last.err = "Loader"
    /\ last.calls = 1
    /\ Entry(files, last.name).err = "Format"

\* C8: load_cached of an entry whose created is later than the current time
\* returns Some(value); the age computation does not panic.
C8_ClockBackStillFresh ==
    ( /\ last.op = "load_cached"
      /\ Entry(files, last.name).kind = "Ok"
      /\ Entry(files, last.name).created > now )
    => (last.kind = "Some" /\ last.val = Entry(files, last.name).value)

\* The step is a store_cache or a with_cached miss that returned Ok.
SuccessfulWrite(l) ==
    /\ l.kind = "Ok"
    /\ \/ l.op = "store_cache"
       \/ l.op = "with_cached" /\ l.calls = 1

\* After the step, the file under l.name holds exactly one Value, created at
\* the time of the store, and no other file has changed.
HoldsOneEnvelope(l) ==
    /\ files'[l.name].exists
    /\ from_str(files'[l.name].bytes) = [ok |-> TRUE, created |-> now', value |-> l.val]
    /\ Len(files'[l.name].bytes) = 1 + Len(l.val)
    /\ \A m \in Names \ {l.name} : files'[m] = files[m]

C10_InitRejectsFile ==
    [][( dirState = "file" /\ last'.op = "init" )
       => /\ last'.kind = "Err"
          /\ ~cache'.init
          /\ dirState' = "file"
          /\ files' = files
      ]_vars

\* init has returned an error on a path that is a regular file.
C10_Witness ==
    /\ last.op = "init" /\ last.kind = "Err"
    /\ dirState = "file"
    /\ ~cache.init

\* C11: whenever init returns a Cache, the directory exists and is a
\* directory: a directory that was there is accepted and left as it was, an
\* absent one has been created, and when init returns an error (the path is a
\* file, or the directory could not be created) there is no Cache and the path
\* is as it was.
C11_InitGivesDirectory ==
    [][ last'.op = "init"
        => /\ last'.kind \in {"Ok", "Err"}
           /\ cache'.init <=> last'.kind = "Ok"
           /\ cache'.init => dirState' = "dir"
           /\ dirState = "dir" => last'.kind = "Ok"
           /\ last'.kind = "Err" => dirState' = dirState /\ dirState # "dir"
           /\ files' = files
      ]_vars

\* init has just returned a Cache, and the directory is there.
C11_Witness ==
    /\ last.op = "init"
    /\ last.kind = "Ok"
    /\ cache.init
    /\ dirState = "dir"

\* C12: load_cached only reads: whatever the entry is (absent, fresh, stale,
\* not parseable) the call invokes no loader and leaves the directory and every
\* file as they were; an entry it reports stale is on disk after the call, byte
\* for byte what it was.
C12_LoadCachedOnlyReads ==
    [][ last'.op = "load_cached"
        => /\ last'.calls = 0
           /\ files' = files
           /\ dirState' = dirState
           /\ last'.kind = "None"
              => /\ files'[last'.name].exists
                 /\ files'[last'.name].bytes = files[last'.name].bytes
      ]_vars

\* load_cached has just reported a stale entry, which is still on disk.
C12_Witness ==
    /\ last.op = "load_cached"
    /\ last.kind = "None"
    /\ Entry(files, last.name).kind = "Ok"
    /\ now - Entry(files, last.name).created >= cache.max_cache_age

\* The bytes a store_cache call recorded as l writes at time clock.
WrittenBy(l, clock) ==
    IF l.given = "Value"
    THEN <<<<"created", clock>>>> \o [i \in 1..Len(l.val) |-> <<"value", l.val[i]>>]
    ELSE <<<<"field", l.val[1]>>>>

\* C13: a successful store_cache(name, v2) leaves under name exactly the
\* serialization of v2, whatever the file held before (nothing, a shorter, an
\* equal or a longer entry), and leaves every other file as it was.
C13_StoreReplacesEntry ==
    [][ ( last'.op = "store_cache" /\ last'.kind = "Ok" )
        => files' = [files EXCEPT ![last'.name] = FileOf(WrittenBy(last', now'))]
      ]_vars

\* store_cache has just written a two-record entry, and a store of a
\* one-record value over it leaves the shorter serialization and nothing else.
C13_Witness ==
    /\ last.op = "store_cache"
    /\ last.kind = "Ok"
    /\ Len(files[last.name].bytes) = 3
    /\ store_cache(files, last.name, ValueFrom(now, <<1>>), IoOk).files[last.name]
           = FileOf(<<<<"created", now>>, <<"value", 1>>>>)

\* C15: in with_cached a failure to read the entry under file_name is treated
\* like a miss, so the loader is invoked; a failure to write after the loader
\* succeeded is returned as the error, so with_cached returns a freshly loaded
\* value only when the entry now holds it.
C15_ReadFailureIsMissWriteFailureIsError ==
    [][ last'.op = "with_cached"
        => /\ Entry(files, last'.name).err = "Format" => last'.calls = 1
           /\ ( last'.calls = 1 /\ last'.kind = "Ok" )
              => files'[last'.name] = FileOf(EnvelopeBytes(now', last'.val))
      ]_vars

\* C15 for the file with_cached reads, which is LookupName(file_name): when
\* that read fails the loader is invoked, and a freshly loaded value is
\* returned only when the entry under file_name now holds it.
C15_OfTheFileRead ==
    [][ last'.op = "with_cached"
        => /\ Entry(files, LookupName(last'.name)).kind = "Err" => last'.calls = 1
           /\ ( last'.calls = 1 /\ last'.kind = "Ok" )
              => files'[last'.name] = FileOf(EnvelopeBytes(now', last'.val))
           /\ last'.err \in {"Io", "Serialize"}
              => last'.kind = "Err" /\ last'.val = <<>> /\ last'.calls = 1
      ]_vars

IsStale(fs, max_cache_age, clock, file_name) ==
    LET e == Entry(fs, file_name)
    IN  /\ e.kind = "Ok"
        /\ e.created <= clock
        /\ clock - e.created >= max_cache_age

\* What with_cached does when it recomputes the entry under l.name: the loader
\* has run once, and when the call returns a value the entry holds that value
\* with created at the time of the store, so that load_cached returns it.
Recomputed(l, fs, max_cache_age, clock) ==
    /\ l.calls = 1
    /\ l.kind = "Ok"
       => /\ fs[l.name] = FileOf(EnvelopeBytes(clock, l.val))
          /\ max_cache_age > 0
             => load_cached(fs, max_cache_age, clock, l.name)
                   = [kind |-> "Some", err |-> "", val |-> l.val]

\* C17: for every entry name, with_cached on an entry whose age is max_age or
\* more invokes the loader, writes the result under that name with a fresh
\* created and returns it; load_cached of that name then returns Some of that
\* result and not the stale value.
C17_StaleIsRecomputed ==
    [][ ( /\ last'.op = "with_cached"
          /\ IsStale(files, cache.max_cache_age, now, last'.name) )
        => Recomputed(last', files', cache.max_cache_age, now')
      ]_vars

\* C17 for the one name with_cached looks up.
C17_StaleLookupIsRecomputed ==
    [][ ( /\ last'.op = "with_cached"
          /\ last'.name = PROMPTS_TOML
          /\ IsStale(files, cache.max_cache_age, now, last'.name) )
        => Recomputed(last', files', cache.max_cache_age, now')
      ]_vars

\* The call recorded as l read the cache and wrote nothing: a load_cached, or a
\* with_cached that did not invoke its loader.
IsRead(l) ==
    \/ l.op = "load_cached"
    \/ l.op = "with_cached" /\ l.calls = 0

\* The call recorded as l is a successful store under file_name: a store_cache,
\* or the store of a with_cached whose loader ran.
IsSuccessfulStore(l, file_name) ==
    /\ l.name = file_name
    /\ l.kind = "Ok"
    /\ \/ l.op = "store_cache"
       \/ l.op = "with_cached" /\ l.calls = 1

C19_CliStoreLeavesExactlyV2 ==
    [][ ( last'.op = "store_cache" /\ last'.kind = "Ok" )
        => /\ files'[last'.name] = FileOf(WrittenBy(last', now'))
           /\ cache.max_cache_age > 0
              => cli_load_cached(files', dirState', cache, now', last'.name, TRUE)
                    = [kind |-> "Some", err |-> "", val |-> last'.val, dir |-> "dir"]
      ]_vars

\* Both callers have missed on the same name and are past the lookup, so both
\* loaders are invoked: with_cached is not single-flight.
C14_BothMissed ==
    /\ \A c \in Callers : inflight[c].pc = "loading"
    /\ \A c, d \in Callers : inflight[c].name = inflight[d].name

\* C14: when callers race on with_cached for the same name, each may miss and
\* run its loader, and once every call has returned the entry holds the
\* envelope written by the store that completed last.
C14_LastWriterWins ==
    ( /\ \A c \in Callers : inflight[c].pc = "idle"
      /\ last.op = "with_cached"
      /\ last.calls = 1
      /\ last.kind = "Ok" )
    => \E t \in Times : files[last.name].bytes = EnvelopeBytes(t, last.val)

\* Caller c is in write_all and no other caller is storing under its name.
WritesAlone(c) ==
    /\ inflight[c].pc = "writing"
    /\ \A d \in Callers \ {c} :
           inflight[d].pc \in {"creating", "writing"} => inflight[d].name # inflight[c].name

\* C18: when the process is interrupted in a store after the file was created
\* and before the write completed, the entry is left empty or cut short, never
\* as bytes that parse as an envelope with another value than the one being
\* stored; the next with_cached for that name does
\* not fail on it: it invokes the loader and leaves a valid entry holding the
\* loaded value, which it returns.
C18_InterruptedStoreHeals ==
    [][ \A c \in Callers :
          ( WritesAlone(c) /\ cache.init /\ ~cache'.init )
          => LET name == inflight[c].name
             IN  /\ Entry(files', name).kind = "Ok"
                    => Entry(files', name).value = inflight[c].val
                 /\ \A max_cache_age \in Ages, v \in Payloads :
                        LET r == with_cached(files', max_cache_age, now', name,
                                             [ok |-> TRUE, val |-> v], 0, IoOk)
                        IN  /\ r.kind = "Ok"
                            /\ r.calls = 1
                            /\ r.val = v
                            /\ r.files[name] = FileOf(EnvelopeBytes(now', v))
      ]_vars

\* C21: in the program's own Cache with caching off, load_cached returns None
\* and with_cached invokes its loader and returns what the loader returned,
\* its value or its error; neither call creates the directory or creates,
\* changes or removes any file.
C21_CachingOffTouchesNothing ==
    [][ ( /\ last'.op \in {"load_cached", "with_cached"}
          /\ ~cache.cache )
        => /\ dirState' = dirState
           /\ files' = files
           /\ last'.op = "load_cached"
              => last'.kind = "None" /\ last'.val = <<>>
           /\ last'.op = "with_cached"
              => /\ last'.calls = 1
                 /\ \/ last'.kind = "Ok" /\ last'.val \in Payloads
                    \/ last'.kind = "Err" /\ last'.err = "Loader"
      ]_vars

\* With caching off with_cached has just run its loader and returned its
\* value, and there is still no cache directory.
C21_Witness ==
    /\ cache.init
    /\ ~cache.cache
    /\ last.op = "with_cached"
    /\ last.calls = 1
    /\ last.kind = "Ok"
    /\ dirState = "absent"


\* The number of results a source owes: one for each of its records, or the
\* one error of a source that could not be fetched.
Owed(source) == IF source.fetched THEN Len(source.records) ELSE 1

\* The number of results owed by the sources before the i-th.
RECURSIVE OwedBefore(_, _)
OwedBefore(sources, i) ==
    IF i = 1 THEN 0 ELSE OwedBefore(sources, i - 1) + Owed(sources[i - 1])

\* The places of the Ok results in results.
OkPlaces(results) == {p \in 1..Len(results) : results[p].kind = "Ok"}

\* C22: what load returns holds, for each source in the order given, the
\* results of its records in the order of the records, a source that failed
\* to load standing for exactly one Err with the sources after it still
\* there; valid_prompts returns Ok with exactly the Prompts of the Ok results,
\* in the same order.
C22_LoadConcatenatesValidKeepsOk ==
    prompts.stage \in {"loaded", "valid"}
    => LET sources == prompts.sources
           results == prompts.results
       IN  /\ Len(results) = OwedBefore(sources, Len(sources) + 1)
           /\ \A i \in 1..Len(sources) :
                  LET at == OwedBefore(sources, i)
                  IN  IF sources[i].fetched
                      THEN \A j \in 1..Len(sources[i].records) :
                               IF sources[i].records[j]
                               THEN /\ results[at + j].kind = "Ok"
                                    /\ results[at + j].prompt = Prompt(j)
                               ELSE /\ results[at + j].kind = "Err"
                                    /\ results[at + j].err = "FormatError"
                      ELSE /\ results[at + 1].kind = "Err"
                           /\ results[at + 1].err = "LoadError"
           /\ prompts.stage = "valid"
              => /\ prompts.kind = "Ok"
                 /\ Len(prompts.valid) = Cardinality(OkPlaces(results))
                 /\ \A p \in OkPlaces(results) :
                        prompts.valid[Cardinality({q \in OkPlaces(results) : q <= p})]
                            = results[p].prompt

\* valid_prompts has run over two sources of which the first failed to load
\* and the second held a good record and then a malformed one: it returned
\* the one Prompt of the good record.
C22_Witness ==
    /\ prompts.stage = "valid"
    /\ Len(prompts.sources) = 2
    /\ ~prompts.sources[1].fetched
    /\ prompts.sources[2].fetched
    /\ Len(prompts.results) = 3
    /\ prompts.results[1].err = "LoadError"
    /\ prompts.results[2].kind = "Ok"
    /\ prompts.results[3].err = "FormatError"
    /\ prompts.valid = <<Prompt(1)>>

====
